---- MODULE Spec2Model ----
(***************************************************************************)
(* Model of wordle.c: a PulseAudio capture loop that runs a real-to-complex *)
(* DFT on each window of samples, keeps one smoothed log-magnitude per      *)
(* column and prints it as a 6x5 grid of three levels.                      *)
(*                                                                          *)
(* Numbers.  A C floating-point value is a record [k, v]: k is "fin",       *)
(* "nan", "pinf" or "ninf" and v is the finite value.  Amplitudes (the      *)
(* frame, log10 results, the brackets) are counted in hundredths; spectrum  *)
(* components are counted in tenths, so a squared magnitude is again in     *)
(* hundredths; an attenuated amplitude is counted in hundredths divided by  *)
(* WORDLE_ROWS, which makes the row attenuation exact.  The product with    *)
(* SMOOTHING is rounded to the nearest hundredth, as the float product is   *)
(* rounded to the nearest float.                                            *)
(***************************************************************************)
EXTENDS Integers, Sequences, FiniteSets, TLC

(* ---- program constants (wordle.c:17-24) ---- *)
SECONDS == 10
SAMPLE_RATE == 44100
BUFSIZE == 1024
WORDLE_COLUMNS == 5
WORDLE_ROWS == 6

(* ---- bounds of the model ---- *)
MaxArgc == 2
MaxBufsize == 40
MaxColumns == 8
SmoothCycles == 25
TailCycles == 6

Columns == 0 .. (WORDLE_COLUMNS - 1)
Rows == 0 .. (WORDLE_ROWS - 1)

VARIABLES
    pc,              \* position of main
    argc,            \* number of command line words
    psStream,        \* pa_simple* : "unset", "null", "held", "freed"
    psFFTWOutput,    \* fftw_complex* : same
    psFFTWPlan,      \* fftw_plan : same
    ui32NumReads,    \* loop bound computed at wordle.c:142
    ui32ReadIndex,   \* loop counter
    afPulseBuffer,   \* the sample window of the last successful read
    spectrum,        \* contents of the DFT output buffer
    sWordleFrame,    \* afAmplitudes, one per column
    grid,            \* levels of the last printed grid, -1 before any
    acquired,        \* resources in the order they were acquired
    released,        \* resources in the order they were released
    misuse,          \* resources released twice or used after release
    reads,           \* calls of pa_simple_read
    transforms,      \* calls of fftw_execute
    smooths,         \* smoothing updates of the frame
    renders,         \* calls of printWordle
    failedCycle,     \* 1-based cycle whose read failed, 0 if none
    exitStatus,      \* -1 while running, then the exit status
    stdout,          \* diagnostics printed so far
    cfgBufsize,      \* BUFSIZE the bin table is built for
    cfgColumns,      \* WORDLE_COLUMNS the bin table is built for
    aui32FreqBins    \* the static bin table

vars == << pc, argc, psStream, psFFTWOutput, psFFTWPlan, ui32NumReads,
           ui32ReadIndex, afPulseBuffer, spectrum, sWordleFrame, grid,
           acquired, released, misuse, reads, transforms, smooths, renders,
           failedCycle, exitStatus, stdout, cfgBufsize, cfgColumns,
           aui32FreqBins >>

(* ---------------------------------------------------------------------- *)
(* Floating point values                                                   *)
(* ---------------------------------------------------------------------- *)
Fin(n) == [k |-> "fin", v |-> n]
NaN == [k |-> "nan", v |-> 0]
PInf == [k |-> "pinf", v |-> 0]
NInf == [k |-> "ninf", v |-> 0]

\* C operator < on floating point values: false when either side is NaN
FLess(x, y) ==
    IF x.k = "nan" \/ y.k = "nan" THEN FALSE
    ELSE IF x.k = "pinf" \/ y.k = "ninf" THEN FALSE
    ELSE IF x.k = "ninf" \/ y.k = "pinf" THEN TRUE
    ELSE x.v < y.v

\* C operator <= on floating point values
FLeq(x, y) ==
    IF x.k = "nan" \/ y.k = "nan" THEN FALSE
    ELSE FLess(x, y) \/ (x.k = y.k /\ x.v = y.v)

FMax_second(x, y) == y

FMax_min(x, y) ==
    IF x.k = "nan" THEN y
    ELSE IF y.k = "nan" THEN x
    ELSE IF FLess(x, y) THEN x ELSE y

\* fmax: a NaN argument is treated as missing data
FMax(x, y) ==
    IF x.k = "nan" THEN y
    ELSE IF y.k = "nan" THEN x
    ELSE IF FLess(x, y) THEN y ELSE x

\* nearest integer to n/d, d > 0
RoundDiv(n, d) == (2 * n + d) \div (2 * d)

MulSmoothing_noDecay(x) == x

\* x * SMOOTHING, SMOOTHING = 0.9f (wordle.c:20)
MulSmoothing(x) ==
    IF x.k = "fin" THEN Fin(RoundDiv(9 * x.v, 10)) ELSE x

(* ---------------------------------------------------------------------- *)
(* Frequency bin table (wordle.c:31-40)                                    *)
(* ---------------------------------------------------------------------- *)
\* ((N / 2) / C) * (X + 0.5) * DFT_SCALING, truncated to uint32_t:
\* q * (X + 0.5) * 0.5 = q * (2X + 1) / 4
DFT_MIDPOINT_inverted(N, C, X) == (((N \div 2) \div C) * (2 * X + 1)) * 2

DFT_MIDPOINT(N, C, X) == (((N \div 2) \div C) * (2 * X + 1)) \div 4

FreqBins(N, C) == [X \in 0 .. (C - 1) |-> DFT_MIDPOINT(N, C, X)]

(* ---------------------------------------------------------------------- *)
(* Quantisation and rendering (wordle.c:47-83)                             *)
(* ---------------------------------------------------------------------- *)
afAmplitudeBrackets == << 0, 50, 100 >>     \* 0.0f, 0.5f, 1.0f in hundredths

\* bracket i in the unit of an attenuated amplitude
Bracket(i) == Fin(afAmplitudeBrackets[i + 1] * WORDLE_ROWS)

REMAP_inclusive(X) ==
    IF FLeq(X, Bracket(1)) THEN 0 ELSE IF FLeq(X, Bracket(2)) THEN 1 ELSE 2

REMAP_swapped(X) ==
    IF FLess(X, Bracket(1)) THEN 0 ELSE IF FLess(X, Bracket(2)) THEN 2 ELSE 1

REMAP_bracketIndex(X) ==
    IF FLess(X, Bracket(1)) THEN 1 ELSE IF FLess(X, Bracket(2)) THEN 2 ELSE 3

\* REMAP(X): index of the bracket X falls in
REMAP(X) ==
    IF FLess(X, Bracket(1)) THEN 0 ELSE IF FLess(X, Bracket(2)) THEN 1 ELSE 2

Attenuated_reversed(ui8Row, a) ==
    IF a.k = "fin" THEN Fin((WORDLE_ROWS - ui8Row) * a.v) ELSE a

\* fAttenuation * amplitude with fAttenuation = (1 + ui8Row) / WORDLE_ROWS
Attenuated(ui8Row, a) ==
    IF a.k = "fin" THEN Fin((1 + ui8Row) * a.v) ELSE a

\* the levels printWordle puts on the terminal, row by row
printWordle(psWordleFrame) ==
    [ui8Row \in Rows |->
        [ui8Column \in Columns |->
            REMAP(Attenuated(ui8Row, psWordleFrame[ui8Column]))]]

NoGrid == [ui8Row \in Rows |-> [ui8Column \in Columns |-> -1]]

(* ---------------------------------------------------------------------- *)
(* Signal path: window -> DFT -> bin sample -> log magnitude               *)
(* (wordle.c:146-181).  pa_simple_read and fftw_execute are library calls; *)
(* a window is described by what it holds and its DFT is the DFT of that.  *)
(* ---------------------------------------------------------------------- *)
\* impulse amplitudes (tenths) the source delivers; 0 is silence
ImpulseAmps == {0, 100}

Impulse(a) == [kind |-> "impulse", amp |-> a]
NaNWindow == [kind |-> "nan", amp |-> 0]
\* a window whose sample 0 is +Inf
InfWindow == [kind |-> "inf", amp |-> 0]
\* the windows the source delivers in a full-length run
Windows == {Impulse(a) : a \in ImpulseAmps}

\* DFT of a window: an impulse A at sample 0 gives X[k] = A + 0i for all k
\* (also for A = +Inf), a window holding a NaN gives NaN everywhere
DFT(w) ==
    IF w.kind = "nan" THEN [re |-> NaN, im |-> NaN]
    ELSE IF w.kind = "inf" THEN [re |-> PInf, im |-> Fin(0)]
    ELSE [re |-> Fin(w.amp), im |-> Fin(0)]

\* impulse amplitudes (tenths) of the short runs: their log magnitudes are
\* -inf, -2.0, 0.0, 0.95, 2.0 and 4.0
RichAmps == {0, 1, 10, 30, 100, 1000}
\* windows with a finite spectrum
FiniteWindows == {Impulse(a) : a \in RichAmps}
\* all windows of the short runs
RichWindows == FiniteWindows \cup {NaNWindow, InfWindow}

Spectra == {DFT(w) : w \in Windows}
NoWindow == Impulse(0)
NoSpectrum == DFT(NoWindow)

\* psFFTWOutput[i]
SpectrumAt(s, i) == s

\* re*re + im*im, in hundredths
SquaredMagnitude(z) ==
    IF z.re.k = "nan" \/ z.im.k = "nan" THEN NaN
    ELSE IF z.re.k # "fin" \/ z.im.k # "fin" THEN PInf
    ELSE Fin(z.re.v * z.re.v + z.im.v * z.im.v)

\* 100 * log10(d) for the leading digit d = 1..9
MantissaLog == << 0, 30, 48, 60, 70, 78, 85, 90, 95 >>

RECURSIVE Log10Digits(_)
\* 100 * log10(n) for n >= 1, exact to the hundredth when n = d * 10^j
Log10Digits(n) ==
    IF n < 10 THEN MantissaLog[n] ELSE 100 + Log10Digits(n \div 10)

\* log10 of a squared magnitude given in hundredths; log10(0) = -inf
log10(x) ==
    IF x.k = "nan" THEN NaN
    ELSE IF x.k = "pinf" THEN PInf
    ELSE IF x.k = "ninf" THEN NaN
    ELSE IF x.v < 0 THEN NaN
    ELSE IF x.v = 0 THEN NInf
    ELSE Fin(Log10Digits(x.v) - 200)

\* fAmplitude of one column (wordle.c:167-174)
Amplitude(s, bins, ui8Column) ==
    log10(SquaredMagnitude(SpectrumAt(s, bins[ui8Column])))

SmoothFrame_decayNew(frame, s, bins) ==
    [ui8Column \in Columns |->
        FMax(frame[ui8Column], MulSmoothing(Amplitude(s, bins, ui8Column)))]

SmoothFrame_firstColumn(frame, s, bins) ==
    [ui8Column \in Columns |->
        IF ui8Column = 0
        THEN FMax(MulSmoothing(frame[ui8Column]),
                  Amplitude(s, bins, ui8Column))
        ELSE frame[ui8Column]]

\* the smoothing update of the whole frame (wordle.c:163-182)
SmoothFrame(frame, s, bins) ==
    [ui8Column \in Columns |->
        FMax(MulSmoothing(frame[ui8Column]), Amplitude(s, bins, ui8Column))]

ZeroFrame_uninitialised == [ui8Column \in Columns |-> Fin(200)]

\* WORDLE_FRAME sWordleFrame = {} (wordle.c:140)
ZeroFrame == [ui8Column \in Columns |-> Fin(0)]

NumReads_roundedUp == (SAMPLE_RATE * SECONDS + BUFSIZE - 1) \div BUFSIZE

\* ui32NumReads (wordle.c:142)
NumReads == (SAMPLE_RATE * SECONDS) \div BUFSIZE

(* ---------------------------------------------------------------------- *)
(* The program                                                             *)
(* ---------------------------------------------------------------------- *)
Init ==
    /\ pc = "static_init"
    /\ argc \in 1 .. MaxArgc
    /\ psStream = "unset"
    /\ psFFTWOutput = "unset"
    /\ psFFTWPlan = "unset"
    /\ ui32NumReads = 0
    /\ ui32ReadIndex = 0
    /\ afPulseBuffer = NoWindow
    /\ spectrum = NoSpectrum
    /\ sWordleFrame = ZeroFrame
    /\ grid = NoGrid
    /\ acquired = << >>
    /\ released = << >>
    /\ misuse = {}
    /\ reads = 0
    /\ transforms = 0
    /\ smooths = 0
    /\ renders = 0
    /\ failedCycle = 0
    /\ exitStatus = -1
    /\ stdout = << >>
    /\ cfgBufsize = BUFSIZE
    /\ cfgColumns = WORDLE_COLUMNS
    /\ aui32FreqBins = << >>

\* static initialiser of aui32FreqBins (wordle.c:33-40)
StaticInit ==
    /\ pc = "static_init"
    /\ aui32FreqBins' = FreqBins(cfgBufsize, cfgColumns)
    /\ pc' = "args"
    /\ UNCHANGED << argc, psStream, psFFTWOutput, psFFTWPlan, ui32NumReads,
                    ui32ReadIndex, afPulseBuffer, spectrum, sWordleFrame,
                    grid, acquired, released, misuse, reads, transforms,
                    smooths, renders, failedCycle, exitStatus, stdout,
                    cfgBufsize, cfgColumns >>

\* the process ends with status st after printing msg (msg = << >>: nothing)
Exit(st, msg) ==
    /\ pc' = "done"
    /\ exitStatus' = st
    /\ stdout' = stdout \o msg

\* the process is killed by a signal (SIGSEGV), nothing is cleaned up
Crash ==
    /\ pc' = "crashed"
    /\ exitStatus' = 128 + 11
    /\ UNCHANGED stdout

\* argc < 2: usage message, return 1 (wordle.c:87-91)
Usage ==
    /\ pc = "args"
    /\ argc < 2
    /\ Exit(1, << "usage" >>)
    /\ UNCHANGED << argc, psStream, psFFTWOutput, psFFTWPlan, ui32NumReads,
                    ui32ReadIndex, afPulseBuffer, spectrum, sWordleFrame,
                    grid, acquired, released, misuse, reads, transforms,
                    smooths, renders, failedCycle, cfgBufsize, cfgColumns,
                    aui32FreqBins >>

\* pa_simple_new succeeds (wordle.c:108-118)
OpenStream ==
    /\ pc = "args"
    /\ argc >= 2
    /\ psStream' = "held"
    /\ acquired' = Append(acquired, "stream")
    /\ pc' = "alloc"
    /\ UNCHANGED << argc, psFFTWOutput, psFFTWPlan, ui32NumReads,
                    ui32ReadIndex, afPulseBuffer, spectrum, sWordleFrame,
                    grid, released, misuse, reads, transforms, smooths,
                    renders, failedCycle, exitStatus, stdout, cfgBufsize,
                    cfgColumns, aui32FreqBins >>

\* pa_simple_new returns NULL: message, return 1 (wordle.c:108-124)
OpenStreamFail ==
    /\ pc = "args"
    /\ argc >= 2
    /\ psStream' = "null"
    /\ Exit(1, << "pa_simple_new() failed" >>)
    /\ UNCHANGED << argc, psFFTWOutput, psFFTWPlan, ui32NumReads,
                    ui32ReadIndex, afPulseBuffer, spectrum, sWordleFrame,
                    grid, acquired, released, misuse, reads, transforms,
                    smooths, renders, failedCycle, cfgBufsize, cfgColumns,
                    aui32FreqBins >>

\* fftw_alloc_complex: a buffer or NULL; the result is not tested
\* (wordle.c:128)
AllocOutput ==
    /\ pc = "alloc"
    /\ \E ok \in BOOLEAN :
        /\ psFFTWOutput' = IF ok THEN "held" ELSE "null"
        /\ acquired' = IF ok THEN Append(acquired, "output") ELSE acquired
    /\ pc' = "plan"
    /\ UNCHANGED << argc, psStream, psFFTWPlan, ui32NumReads, ui32ReadIndex,
                    afPulseBuffer, spectrum, sWordleFrame, grid, released,
                    misuse, reads, transforms, smooths, renders, failedCycle,
                    exitStatus, stdout, cfgBufsize, cfgColumns,
                    aui32FreqBins >>

\* fftw_plan_dft_r2c_1d: a plan or NULL; the result is not tested.  Then the
\* frame is zeroed and the number of reads computed (wordle.c:129-142)
PlanDft ==
    /\ pc = "plan"
    /\ \E ok \in BOOLEAN :
        /\ psFFTWPlan' = IF ok THEN "held" ELSE "null"
        /\ acquired' = IF ok THEN Append(acquired, "plan") ELSE acquired
    /\ sWordleFrame' = ZeroFrame
    /\ ui32NumReads' = NumReads
    /\ ui32ReadIndex' = 0
    /\ pc' = "loop"
    /\ UNCHANGED << argc, psStream, psFFTWOutput, afPulseBuffer, spectrum,
                    grid, released, misuse, reads, transforms, smooths,
                    renders, failedCycle, exitStatus, stdout, cfgBufsize,
                    cfgColumns, aui32FreqBins >>

\* planning with FFTW_PATIENT runs transforms into the output array; with a
\* NULL array that is a write through a null pointer, which can kill the
\* process (the other outcome, a returned plan or NULL, is PlanDft)
PlanDftFault ==
    /\ pc = "plan"
    /\ psFFTWOutput # "held"
    /\ Crash
    /\ UNCHANGED << argc, psStream, psFFTWOutput, psFFTWPlan, ui32NumReads,
                    ui32ReadIndex, afPulseBuffer, spectrum, sWordleFrame,
                    grid, acquired, released, misuse, reads, transforms,
                    smooths, renders, failedCycle, cfgBufsize, cfgColumns,
                    aui32FreqBins >>

\* a use of resource r in state st: a use after release is recorded
Use(r, st) == IF st = "freed" THEN {r} ELSE {}

\* pa_simple_read fills the buffer with one of the windows W
\* (wordle.c:143-146)
Read(W) ==
    /\ pc = "loop"
    /\ ui32ReadIndex < ui32NumReads
    /\ \E w \in W : afPulseBuffer' = w
    /\ reads' = reads + 1
    /\ misuse' = misuse \cup Use("stream", psStream)
    /\ pc' = "execute"
    /\ UNCHANGED << argc, psStream, psFFTWOutput, psFFTWPlan, ui32NumReads,
                    ui32ReadIndex, spectrum, sWordleFrame, grid, acquired,
                    released, transforms, smooths, renders, failedCycle,
                    exitStatus, stdout, cfgBufsize, cfgColumns,
                    aui32FreqBins >>

\* a read in a full-length run
ReadOk == Read(Windows)

\* a read that delivers the same window as the read before it
ReadAgain == Read({afPulseBuffer})

\* a read that delivers an all-zero window
ReadSilent == Read({Impulse(0)})

\* a read that delivers any window, also one with NaN or Inf samples
ReadRich == Read(RichWindows)

ReadFail_noBreak ==
    /\ pc = "loop"
    /\ ui32ReadIndex < ui32NumReads
    /\ reads' = reads + 1
    /\ misuse' = misuse \cup Use("stream", psStream)
    /\ failedCycle' = ui32ReadIndex + 1
    /\ stdout' = Append(stdout, "pa_simple_read() failed")
    /\ pc' = "execute"
    /\ UNCHANGED << argc, psStream, psFFTWOutput, psFFTWPlan, ui32NumReads,
                    ui32ReadIndex, afPulseBuffer, spectrum, sWordleFrame,
                    grid, acquired, released, transforms, smooths, renders,
                    exitStatus, cfgBufsize, cfgColumns, aui32FreqBins >>

\* pa_simple_read fails: message, break (wordle.c:146-150)
ReadFail ==
    /\ pc = "loop"
    /\ ui32ReadIndex < ui32NumReads
    /\ reads' = reads + 1
    /\ misuse' = misuse \cup Use("stream", psStream)
    /\ failedCycle' = ui32ReadIndex + 1
    /\ stdout' = Append(stdout, "pa_simple_read() failed")
    /\ pc' = "free_stream"
    /\ UNCHANGED << argc, psStream, psFFTWOutput, psFFTWPlan, ui32NumReads,
                    ui32ReadIndex, afPulseBuffer, spectrum, sWordleFrame,
                    grid, acquired, released, transforms, smooths, renders,
                    exitStatus, cfgBufsize, cfgColumns, aui32FreqBins >>

\* the loop condition fails (wordle.c:143)
LoopExit ==
    /\ pc = "loop"
    /\ ~(ui32ReadIndex < ui32NumReads)
    /\ pc' = "free_stream"
    /\ UNCHANGED << argc, psStream, psFFTWOutput, psFFTWPlan, ui32NumReads,
                    ui32ReadIndex, afPulseBuffer, spectrum, sWordleFrame,
                    grid, acquired, released, misuse, reads, transforms,
                    smooths, renders, failedCycle, exitStatus, stdout,
                    cfgBufsize, cfgColumns, aui32FreqBins >>

\* copy the window into the DFT input and fftw_execute (wordle.c:152-160)
Execute ==
    /\ pc = "execute"
    /\ psFFTWPlan \in {"held", "freed"}
    /\ psFFTWOutput \in {"held", "freed"}
    /\ spectrum' = DFT(afPulseBuffer)
    /\ transforms' = transforms + 1
    /\ misuse' = misuse \cup Use("plan", psFFTWPlan)
                        \cup Use("output", psFFTWOutput)
    /\ pc' = "sample"
    /\ UNCHANGED << argc, psStream, psFFTWOutput, psFFTWPlan, ui32NumReads,
                    ui32ReadIndex, afPulseBuffer, sWordleFrame, grid,
                    acquired, released, reads, smooths, renders, failedCycle,
                    exitStatus, stdout, cfgBufsize, cfgColumns,
                    aui32FreqBins >>

\* fftw_execute with a NULL plan or into a NULL array is undefined: the
\* process is killed here ...
ExecuteFault ==
    /\ pc = "execute"
    /\ psFFTWPlan = "null" \/ psFFTWOutput = "null"
    /\ Crash
    /\ UNCHANGED << argc, psStream, psFFTWOutput, psFFTWPlan, ui32NumReads,
                    ui32ReadIndex, afPulseBuffer, spectrum, sWordleFrame,
                    grid, acquired, released, misuse, reads, transforms,
                    smooths, renders, failedCycle, cfgBufsize, cfgColumns,
                    aui32FreqBins >>

\* ... or it goes on with whatever the output array then holds
ExecuteUndefined ==
    /\ pc = "execute"
    /\ psFFTWPlan = "null" \/ psFFTWOutput = "null"
    /\ \E s \in Spectra : spectrum' = s
    /\ transforms' = transforms + 1
    /\ pc' = "sample"
    /\ UNCHANGED << argc, psStream, psFFTWOutput, psFFTWPlan, ui32NumReads,
                    ui32ReadIndex, afPulseBuffer, sWordleFrame, grid,
                    acquired, released, misuse, reads, smooths, renders,
                    failedCycle, exitStatus, stdout, cfgBufsize, cfgColumns,
                    aui32FreqBins >>

\* sample the mapped bins and smooth every column (wordle.c:163-182); with a
\* NULL output array the values read are whatever ExecuteUndefined left
Sample ==
    /\ pc = "sample"
    /\ sWordleFrame' = SmoothFrame(sWordleFrame, spectrum, aui32FreqBins)
    /\ smooths' = smooths + 1
    /\ misuse' = misuse \cup Use("output", psFFTWOutput)
    /\ pc' = "render"
    /\ UNCHANGED << argc, psStream, psFFTWOutput, psFFTWPlan, ui32NumReads,
                    ui32ReadIndex, afPulseBuffer, spectrum, grid, acquired,
                    released, reads, transforms, renders, failedCycle,
                    exitStatus, stdout, cfgBufsize, cfgColumns,
                    aui32FreqBins >>

\* reading through a NULL output array can kill the process
SampleFault ==
    /\ pc = "sample"
    /\ psFFTWOutput = "null"
    /\ Crash
    /\ UNCHANGED << argc, psStream, psFFTWOutput, psFFTWPlan, ui32NumReads,
                    ui32ReadIndex, afPulseBuffer, spectrum, sWordleFrame,
                    grid, acquired, released, misuse, reads, transforms,
                    smooths, renders, failedCycle, cfgBufsize, cfgColumns,
                    aui32FreqBins >>

Render_resetsFrame ==
    /\ pc = "render"
    /\ grid' = printWordle(sWordleFrame)
    /\ sWordleFrame' = ZeroFrame
    /\ renders' = renders + 1
    /\ ui32ReadIndex' = ui32ReadIndex + 1
    /\ pc' = "loop"
    /\ UNCHANGED << argc, psStream, psFFTWOutput, psFFTWPlan, ui32NumReads,
                    afPulseBuffer, spectrum, acquired, released, misuse,
                    reads, transforms, smooths, failedCycle, exitStatus,
                    stdout, cfgBufsize, cfgColumns, aui32FreqBins >>

\* clear the terminal, printWordle, ++ui32ReadIndex (wordle.c:143, 184-189)
Render ==
    /\ pc = "render"
    /\ grid' = printWordle(sWordleFrame)
    /\ renders' = renders + 1
    /\ ui32ReadIndex' = ui32ReadIndex + 1
    /\ pc' = "loop"
    /\ UNCHANGED << argc, psStream, psFFTWOutput, psFFTWPlan, ui32NumReads,
                    afPulseBuffer, spectrum, sWordleFrame, acquired,
                    released, misuse, reads, transforms, smooths,
                    failedCycle, exitStatus, stdout, cfgBufsize, cfgColumns,
                    aui32FreqBins >>

\* state of a resource after its release call; releasing NULL does nothing
Released(st) == IF st = "held" THEN "freed" ELSE st
ReleaseLog(r, st) == IF st = "held" THEN Append(released, r) ELSE released
ReleaseMisuse(r, st) == IF st = "freed" THEN misuse \cup {r} ELSE misuse

\* pa_simple_free(psStream) (wordle.c:191)
FreeStream ==
    /\ pc = "free_stream"
    /\ psStream' = Released(psStream)
    /\ released' = ReleaseLog("stream", psStream)
    /\ misuse' = ReleaseMisuse("stream", psStream)
    /\ pc' = "free_output"
    /\ UNCHANGED << argc, psFFTWOutput, psFFTWPlan, ui32NumReads,
                    ui32ReadIndex, afPulseBuffer, spectrum, sWordleFrame,
                    grid, acquired, reads, transforms, smooths, renders,
                    failedCycle, exitStatus, stdout, cfgBufsize, cfgColumns,
                    aui32FreqBins >>

FreeOutput_missing ==
    /\ pc = "free_output"
    /\ pc' = "destroy_plan"
    /\ UNCHANGED << argc, psStream, psFFTWOutput, psFFTWPlan, ui32NumReads,
                    ui32ReadIndex, afPulseBuffer, spectrum, sWordleFrame,
                    grid, acquired, released, misuse, reads, transforms,
                    smooths, renders, failedCycle, exitStatus, stdout,
                    cfgBufsize, cfgColumns, aui32FreqBins >>

\* fftw_free(psFFTWOutput) (wordle.c:193)
FreeOutput ==
    /\ pc = "free_output"
    /\ psFFTWOutput' = Released(psFFTWOutput)
    /\ released' = ReleaseLog("output", psFFTWOutput)
    /\ misuse' = ReleaseMisuse("output", psFFTWOutput)
    /\ pc' = "destroy_plan"
    /\ UNCHANGED << argc, psStream, psFFTWPlan, ui32NumReads, ui32ReadIndex,
                    afPulseBuffer, spectrum, sWordleFrame, grid, acquired,
                    reads, transforms, smooths, renders, failedCycle,
                    exitStatus, stdout, cfgBufsize, cfgColumns,
                    aui32FreqBins >>

\* fftw_destroy_plan(psFFTWPlan) (wordle.c:194)
DestroyPlan ==
    /\ pc = "destroy_plan"
    /\ psFFTWPlan' = Released(psFFTWPlan)
    /\ released' = ReleaseLog("plan", psFFTWPlan)
    /\ misuse' = ReleaseMisuse("plan", psFFTWPlan)
    /\ pc' = "return"
    /\ UNCHANGED << argc, psStream, psFFTWOutput, ui32NumReads,
                    ui32ReadIndex, afPulseBuffer, spectrum, sWordleFrame,
                    grid, acquired, reads, transforms, smooths, renders,
                    failedCycle, exitStatus, stdout, cfgBufsize, cfgColumns,
                    aui32FreqBins >>

\* return 0 (wordle.c:196)
Return ==
    /\ pc = "return"
    /\ Exit(0, << >>)
    /\ UNCHANGED << argc, psStream, psFFTWOutput, psFFTWPlan, ui32NumReads,
                    ui32ReadIndex, afPulseBuffer, spectrum, sWordleFrame,
                    grid, acquired, released, misuse, reads, transforms,
                    smooths, renders, failedCycle, cfgBufsize, cfgColumns,
                    aui32FreqBins >>

Next ==
    \/ StaticInit
    \/ Usage
    \/ OpenStream
    \/ OpenStreamFail
    \/ AllocOutput
    \/ PlanDft
    \/ PlanDftFault
    \/ ReadOk
    \/ ReadFail
    \/ LoopExit
    \/ Execute
    \/ ExecuteFault
    \/ ExecuteUndefined
    \/ Sample
    \/ SampleFault
    \/ Render
    \/ FreeStream
    \/ FreeOutput
    \/ DestroyPlan
    \/ Return

Spec == Init /\ [][Next]_vars

TypeOK ==
    /\ pc \in {"static_init", "args", "alloc", "plan", "loop", "execute",
               "sample", "render", "free_stream", "free_output",
               "destroy_plan", "return", "done", "crashed"}
    /\ ui32ReadIndex \in 0 .. ui32NumReads
    /\ afPulseBuffer \in Windows
    /\ spectrum \in Spectra

(* ---------------------------------------------------------------------- *)
(* The bin table for other window sizes and column counts                  *)
(* ---------------------------------------------------------------------- *)
InitBins ==
    /\ pc = "static_init"
    /\ argc = 2
    /\ psStream = "unset"
    /\ psFFTWOutput = "unset"
    /\ psFFTWPlan = "unset"
    /\ ui32NumReads = 0
    /\ ui32ReadIndex = 0
    /\ afPulseBuffer = NoWindow
    /\ spectrum = NoSpectrum
    /\ sWordleFrame = ZeroFrame
    /\ grid = NoGrid
    /\ acquired = << >>
    /\ released = << >>
    /\ misuse = {}
    /\ reads = 0
    /\ transforms = 0
    /\ smooths = 0
    /\ renders = 0
    /\ failedCycle = 0
    /\ exitStatus = -1
    /\ stdout = << >>
    /\ cfgBufsize \in (2 .. MaxBufsize) \cup {BUFSIZE}
    /\ cfgColumns \in (1 .. MaxColumns) \cup {WORDLE_COLUMNS}
    /\ aui32FreqBins = << >>

SpecBins == InitBins /\ [][StaticInit]_vars

(* ---------------------------------------------------------------------- *)
(* printWordle on arbitrary frames: the program stands before the render   *)
(* of its first cycle, the frame holds any of the sample amplitudes        *)
(* ---------------------------------------------------------------------- *)
QuantSamples ==
    { Fin(-100), Fin(0), Fin(49), Fin(50), Fin(100), Fin(300), PInf, NaN }

AllGreen == [ui8Row \in Rows |-> [ui8Column \in Columns |-> 2]]

InitQuant ==
    /\ pc = "render"
    /\ argc = 2
    /\ psStream = "held"
    /\ psFFTWOutput = "held"
    /\ psFFTWPlan = "held"
    /\ ui32NumReads = NumReads
    /\ ui32ReadIndex = 0
    /\ afPulseBuffer = NoWindow
    /\ spectrum = NoSpectrum
    /\ sWordleFrame \in [Columns -> QuantSamples]
    /\ grid \in {NoGrid, AllGreen}
    /\ acquired = << "stream", "output", "plan" >>
    /\ released = << >>
    /\ misuse = {}
    /\ reads = 1
    /\ transforms = 1
    /\ smooths = 1
    /\ renders = 0
    /\ failedCycle = 0
    /\ exitStatus = -1
    /\ stdout = << >>
    /\ cfgBufsize = BUFSIZE
    /\ cfgColumns = WORDLE_COLUMNS
    /\ aui32FreqBins = FreqBins(BUFSIZE, WORDLE_COLUMNS)

SpecQuant == InitQuant /\ [][Render]_vars

(* ---------------------------------------------------------------------- *)
(* A run whose source delivers only all-zero windows                       *)
(* ---------------------------------------------------------------------- *)
NextSilent ==
    \/ StaticInit
    \/ Usage
    \/ OpenStream
    \/ OpenStreamFail
    \/ AllocOutput
    \/ PlanDft
    \/ PlanDftFault
    \/ ReadSilent
    \/ ReadFail
    \/ LoopExit
    \/ Execute
    \/ ExecuteFault
    \/ ExecuteUndefined
    \/ Sample
    \/ SampleFault
    \/ Render
    \/ FreeStream
    \/ FreeOutput
    \/ DestroyPlan
    \/ Return

SpecSilent == Init /\ [][NextSilent]_vars

(* ---------------------------------------------------------------------- *)
(* The last SmoothCycles cycles of a fully initialised run, every one of   *)
(* them reading the same window.  The run stands after the read of the     *)
(* first of these cycles; the cycle before it, with window w0, brought the *)
(* frame from zero to the magnitude of w0.                                 *)
(* ---------------------------------------------------------------------- *)
SmoothStart == NumReads - SmoothCycles

InitSmooth ==
    /\ pc = "execute"
    /\ argc = 2
    /\ psStream = "held"
    /\ psFFTWOutput = "held"
    /\ psFFTWPlan = "held"
    /\ ui32NumReads = NumReads
    /\ ui32ReadIndex = SmoothStart
    /\ afPulseBuffer \in RichWindows
    /\ \E w0 \in FiniteWindows :
        /\ spectrum = DFT(w0)
        /\ sWordleFrame = SmoothFrame(ZeroFrame, DFT(w0),
                                      FreqBins(BUFSIZE, WORDLE_COLUMNS))
    /\ grid = printWordle(sWordleFrame)
    /\ acquired = << "stream", "output", "plan" >>
    /\ released = << >>
    /\ misuse = {}
    /\ reads = SmoothStart + 1
    /\ transforms = SmoothStart
    /\ smooths = SmoothStart
    /\ renders = SmoothStart
    /\ failedCycle = 0
    /\ exitStatus = -1
    /\ stdout = << >>
    /\ cfgBufsize = BUFSIZE
    /\ cfgColumns = WORDLE_COLUMNS
    /\ aui32FreqBins = FreqBins(BUFSIZE, WORDLE_COLUMNS)

NextSmooth ==
    \/ ReadAgain
    \/ Execute
    \/ Sample
    \/ Render
    \/ LoopExit
    \/ FreeStream
    \/ FreeOutput
    \/ DestroyPlan
    \/ Return

SpecSmooth == InitSmooth /\ [][NextSmooth]_vars

(* ---------------------------------------------------------------------- *)
(* The last TailCycles cycles of a fully initialised run that has read     *)
(* only all-zero windows so far; from here the source delivers any window  *)
(* ---------------------------------------------------------------------- *)
TailStart == NumReads - TailCycles

InitTail ==
    /\ pc = "loop"
    /\ argc = 2
    /\ psStream = "held"
    /\ psFFTWOutput = "held"
    /\ psFFTWPlan = "held"
    /\ ui32NumReads = NumReads
    /\ ui32ReadIndex = TailStart
    /\ afPulseBuffer = Impulse(0)
    /\ spectrum = DFT(Impulse(0))
    /\ sWordleFrame = ZeroFrame
    /\ grid = printWordle(ZeroFrame)
    /\ acquired = << "stream", "output", "plan" >>
    /\ released = << >>
    /\ misuse = {}
    /\ reads = TailStart
    /\ transforms = TailStart
    /\ smooths = TailStart
    /\ renders = TailStart
    /\ failedCycle = 0
    /\ exitStatus = -1
    /\ stdout = << >>
    /\ cfgBufsize = BUFSIZE
    /\ cfgColumns = WORDLE_COLUMNS
    /\ aui32FreqBins = FreqBins(BUFSIZE, WORDLE_COLUMNS)

NextTail ==
    \/ ReadRich
    \/ ReadFail
    \/ Execute
    \/ Sample
    \/ Render
    \/ LoopExit
    \/ FreeStream
    \/ FreeOutput
    \/ DestroyPlan
    \/ Return

SpecTail == InitTail /\ [][NextTail]_vars

(* ====================================================================== *)
(* Properties                                                              *)
(* ====================================================================== *)

\* C1: a run whose stream, output array and plan were all acquired and in
\* which no read fails never reads or renders more than
\* (SAMPLE_RATE * SECONDS) / BUFSIZE = 430 times, never gets ahead of or
\* behind one render per read, and ends with status 0 after exactly 430
\* reads and 430 renders.
C1_FixedNumberOfCycles ==
    /\ reads <= 430
    /\ renders <= reads
    /\ reads <= renders + 1
    /\ (pc = "loop" /\ failedCycle = 0) =>
            (reads = ui32ReadIndex /\ renders = ui32ReadIndex)
    /\ (/\ pc \in {"done", "crashed"}
        /\ acquired = << "stream", "output", "plan" >>
        /\ failedCycle = 0)
       => (/\ pc = "done"
           /\ exitStatus = 0
           /\ (SAMPLE_RATE * SECONDS) \div BUFSIZE = 430
           /\ reads = 430
           /\ renders = 430)

C1_Witness ==
    /\ pc = "done"
    /\ acquired = << "stream", "output", "plan" >>
    /\ failedCycle = 0
    /\ reads = 430
    /\ renders = 430
    /\ exitStatus = 0

\* C2: a process that was fully initialised and ends after a failed read
\* has reported the failure and ends with a non-zero status.
C2_ReadFailureExitsNonZero ==
    (/\ pc = "done"
     /\ failedCycle > 0
     /\ acquired = << "stream", "output", "plan" >>) =>
        (/\ exitStatus # 0
         /\ \E i \in 1 .. Len(stdout) : stdout[i] = "pa_simple_read() failed")

\* C3: once the read of cycle k has failed, k reads and k-1 transforms,
\* smoothing updates and renders have happened, none of these happens
\* again and the frame and the grid stay as they are; when the process
\* ends, the stream, the output array and the plan are no longer held.
C3_ReadFailureIsTerminal ==
    /\ [](failedCycle > 0 =>
            /\ reads = failedCycle
            /\ transforms = failedCycle - 1
            /\ smooths = failedCycle - 1
            /\ renders = failedCycle - 1
            /\ failedCycle <= ui32NumReads
            /\ pc # "crashed"
            /\ (pc = "done" =>
                    /\ psStream = "freed"
                    /\ psFFTWOutput \in {"freed", "null"}
                    /\ psFFTWPlan \in {"freed", "null"}))
    /\ [][failedCycle > 0 =>
            UNCHANGED << reads, transforms, smooths, renders, sWordleFrame,
                         grid, failedCycle >>]_vars

C3_Witness ==
    /\ pc = "done"
    /\ failedCycle = 3
    /\ renders = 2
    /\ released = << "stream", "output", "plan" >>

\* C4 as stated: after the loop of a fully initialised run, the stream, the
\* output array and the plan are released in the reverse of the order in
\* which they were acquired.
C4_ReleasedInReverseOrder ==
    (pc = "done" /\ acquired = << "stream", "output", "plan" >>) =>
        (/\ Len(released) = Len(acquired)
         /\ \A i \in 1 .. Len(released) :
                released[i] = acquired[Len(acquired) + 1 - i])

\* C4 amended: after the loop (left by completing all cycles or by a read
\* failure), the resources that were acquired are released in the order in
\* which they were acquired: stream, output array, plan.
C4_ReleasedInAcquisitionOrder ==
    /\ (pc \in {"return", "done"} /\ psStream = "freed") =>
            released = acquired
    /\ \A i \in 1 .. Len(released) : released[i] = acquired[i]

C4_Witness ==
    /\ pc = "done"
    /\ acquired = << "stream", "output", "plan" >>
    /\ released = << "stream", "output", "plan" >>

\* C5: when the process has ended, every resource that was acquired has
\* been released exactly once, and none was released twice or used after
\* its release.
C5_EveryResourceReleasedOnce ==
    (pc \in {"done", "crashed"}) =>
        (/\ \A i \in 1 .. Len(acquired) :
                Cardinality({j \in 1 .. Len(released) :
                                released[j] = acquired[i]}) = 1
         /\ misuse = {})

\* C6: when the stream, the output array or the plan could not be
\* acquired, no read, transform or render is performed, and a process that
\* returns from main has printed a diagnostic and returns a non-zero status.
C6_InitFailureIsFatal ==
    (psStream = "null" \/ psFFTWOutput = "null" \/ psFFTWPlan = "null") =>
        (/\ reads = 0
         /\ transforms = 0
         /\ renders = 0
         /\ (pc = "done" => (exitStatus # 0 /\ stdout # << >>)))

\* C7: every entry of the bin table lies in 0 .. N/2 - 1, for every window
\* size N >= 2 and column count C >= 1; for N = 1024 and C = 5 the entries
\* are 25, 76, 127, 178, 229.
C7_BinsWithinSpectrum ==
    (pc # "static_init") =>
        (/\ DOMAIN aui32FreqBins = 0 .. (cfgColumns - 1)
         /\ \A X \in DOMAIN aui32FreqBins :
                /\ 0 <= aui32FreqBins[X]
                /\ aui32FreqBins[X] < cfgBufsize \div 2
         /\ (cfgBufsize = 1024 /\ cfgColumns = 5) =>
                (/\ aui32FreqBins[0] = 25
                 /\ aui32FreqBins[1] = 76
                 /\ aui32FreqBins[2] = 127
                 /\ aui32FreqBins[3] = 178
                 /\ aui32FreqBins[4] = 229))

C7_Witness ==
    /\ pc = "args"
    /\ cfgBufsize = 1024
    /\ cfgColumns = 5
    /\ aui32FreqBins[4] = 229

\* C8: in a printed grid, the level of row r, column c is 0 when
\* frame[c] * (r+1)/R is below 0.5, 1 when it is at or above 0.5 and below
\* 1.0, and 2 when it is at or above 1.0, whatever the grid showed before.
C8_LevelFromThresholds ==
    (renders > 0 /\ pc # "render") =>
        \A r \in Rows, c \in Columns :
            LET a == sWordleFrame[c]
                below1 == \/ a.k = "ninf"
                          \/ a.k = "fin" /\ a.v * (r + 1) < 50 * WORDLE_ROWS
                atLeast2 == \/ a.k = "pinf"
                            \/ a.k = "fin" /\ a.v * (r + 1) >= 100 * WORDLE_ROWS
                between == a.k = "fin" /\ ~below1 /\ ~atLeast2
            IN  /\ below1 => grid[r][c] = 0
                /\ between => grid[r][c] = 1
                /\ atLeast2 => grid[r][c] = 2

C8_Witness ==
    /\ renders > 0
    /\ pc # "render"
    /\ sWordleFrame[0] = Fin(50)
    /\ grid[WORDLE_ROWS - 1][0] = 1
    /\ sWordleFrame[1] = Fin(49)
    /\ grid[WORDLE_ROWS - 1][1] = 0
    /\ sWordleFrame[2] = Fin(100)
    /\ grid[WORDLE_ROWS - 1][2] = 2

\* C9: for any two cells of a printed grid whose attenuated amplitudes are
\* x <= y, the level of the first is at most the level of the second.
C9_QuantisationMonotonic ==
    (renders > 0 /\ pc # "render") =>
        \A r1 \in Rows, r2 \in Rows, c1 \in Columns, c2 \in Columns :
            LET x == sWordleFrame[c1]
                y == sWordleFrame[c2]
                xLeqY == /\ x.k # "nan"
                         /\ y.k # "nan"
                         /\ \/ x.k = "ninf"
                            \/ y.k = "pinf"
                            \/ /\ x.k = "fin"
                               /\ y.k = "fin"
                               /\ x.v * (r1 + 1) <= y.v * (r2 + 1)
            IN  xLeqY => grid[r1][c1] <= grid[r2][c2]

C9_Witness ==
    /\ renders > 0
    /\ pc # "render"
    /\ \E r \in Rows, c1 \in Columns, c2 \in Columns :
        /\ sWordleFrame[c1].k = "fin"
        /\ sWordleFrame[c2].k = "fin"
        /\ sWordleFrame[c1].v < sWordleFrame[c2].v
        /\ grid[r][c1] = 1
        /\ grid[r][c2] = 2

\* C10: in a printed grid, for a column whose amplitude is not negative, a
\* row further down never shows a lower level than a row further up, and
\* the last row shows the level of the amplitude itself.
C10_RowOrdering ==
    (renders > 0 /\ pc # "render") =>
        \A c \in Columns :
            LET a == sWordleFrame[c]
                last == grid[WORDLE_ROWS - 1][c]
            IN  (a.k = "pinf" \/ (a.k = "fin" /\ a.v >= 0)) =>
                    /\ \A r1 \in Rows, r2 \in Rows :
                            r1 < r2 => grid[r2][c] >= grid[r1][c]
                    /\ (a.k = "fin" /\ a.v < 50) => last = 0
                    /\ (a.k = "fin" /\ a.v >= 50 /\ a.v < 100) => last = 1
                    /\ (a.k = "pinf" \/ (a.k = "fin" /\ a.v >= 100))
                            => last = 2

C10_Witness ==
    /\ renders > 0
    /\ pc # "render"
    /\ \E c \in Columns :
        /\ sWordleFrame[c] = Fin(100)
        /\ grid[0][c] = 0
        /\ grid[WORDLE_ROWS - 1][c] = 2

C12_GeometricDecay ==
    /\ [](\A c \in Columns :
            LET k == smooths - SmoothStart
                a == sWordleFrame[c]
                pow10 == [i \in 0 .. 4 |-> 10 ^ i]
                pow9 == [i \in 0 .. 4 |-> 9 ^ i]
            IN  (/\ Amplitude(DFT(afPulseBuffer), aui32FreqBins, c) = Fin(0)
                 /\ k <= 4) =>
                    /\ a.k = "fin"
                    /\ \E w0 \in FiniteWindows :
                        LET m0 == Amplitude(DFT(w0), aui32FreqBins, c)
                            v == IF m0.k = "fin" /\ m0.v > 0 THEN m0.v ELSE 0
                            diff == a.v * pow10[k] - v * pow9[k]
                        IN  /\ 2 * diff <= k * pow10[k]
                            /\ -2 * diff <= k * pow10[k])
    /\ [][\A c \in Columns :
            (/\ smooths' = smooths + 1
             /\ Amplitude(DFT(afPulseBuffer), aui32FreqBins, c) = Fin(0)
             /\ sWordleFrame[c].k = "fin")
            => (/\ sWordleFrame'[c].k = "fin"
                /\ 10 * sWordleFrame'[c].v - 9 * sWordleFrame[c].v <= 5
                /\ 9 * sWordleFrame[c].v - 10 * sWordleFrame'[c].v <= 5)]_vars

C12_Witness ==
    /\ afPulseBuffer = Impulse(10)
    /\ smooths = SmoothStart + 2
    /\ sWordleFrame[0] = Fin(324)
    /\ sWordleFrame[4] = Fin(324)

\* C13: in a fully initialised run whose windows are all zero, every cell
\* of every printed grid is level 0 (and the frame stays zero).
C13_SilenceShowsLowestLevel ==
    (acquired = << "stream", "output", "plan" >>) =>
        /\ \A c \in Columns : sWordleFrame[c] = Fin(0)
        /\ (pc \in {"sample", "render"}) =>
                \A c \in Columns :
                    SquaredMagnitude(SpectrumAt(spectrum, aui32FreqBins[c]))
                        = Fin(0)
        /\ (renders > 0) =>
                \A r \in Rows, c \in Columns : grid[r][c] = 0

C13_Witness ==
    /\ pc = "done"
    /\ acquired = << "stream", "output", "plan" >>
    /\ failedCycle = 0
    /\ renders = 430
    /\ \A r \in Rows, c \in Columns : grid[r][c] = 0

\* C14: after a loud window, while only all-zero windows follow, every
\* cycle replaces each column's amplitude by 0.9 times it; a grid printed
\* from amplitudes below 0.5 is all level 0, every grid after an all-zero
\* grid is all zero again, and the grid is all zero at the end of the run.
C14_ImpulseDecaysToLowestLevel ==
    /\ []((afPulseBuffer = Impulse(0)) =>
            /\ \A c \in Columns : sWordleFrame[c].k = "fin"
            /\ (/\ pc # "render"
                /\ \A c \in Columns : sWordleFrame[c].v < 50)
               => (\A r \in Rows, c \in Columns : grid[r][c] = 0)
            /\ (pc = "done") =>
                    /\ \A c \in Columns : sWordleFrame[c].v < 50
                    /\ \A r \in Rows, c \in Columns : grid[r][c] = 0)
    /\ [][(afPulseBuffer = Impulse(0)) =>
            /\ (smooths' = smooths + 1) =>
                    \A c \in Columns :
                        /\ 10 * sWordleFrame'[c].v - 9 * sWordleFrame[c].v <= 5
                        /\ 9 * sWordleFrame[c].v - 10 * sWordleFrame'[c].v <= 5
            /\ (\A r \in Rows, c \in Columns : grid[r][c] = 0) =>
                    (\A r \in Rows, c \in Columns : grid'[r][c] = 0)]_vars

C14_Witness ==
    /\ pc = "done"
    /\ afPulseBuffer = Impulse(0)
    /\ \A c \in Columns : sWordleFrame[c].v > 20 /\ sWordleFrame[c].v < 50
    /\ \A r \in Rows, c \in Columns : grid[r][c] = 0

\* C15: whatever magnitudes the cycles produce, NaN and infinities
\* included, every column's frame value is finite.
C15_FrameStaysFinite ==
    \A c \in Columns : sWordleFrame[c].k = "fin"

\* C16: every cell of a printed grid is a level 0, 1 or 2, whatever the
\* frame holds (negative, large, infinite or NaN amplitudes).
C16_LevelsWithinPalette ==
    (renders > 0) =>
        \A r \in Rows, c \in Columns : grid[r][c] \in {0, 1, 2}

C16_Witness ==
    /\ renders > 0
    /\ pc # "render"
    /\ sWordleFrame[0] = NaN
    /\ grid[0][0] = 2
    /\ sWordleFrame[1] = Fin(-100)
    /\ grid[WORDLE_ROWS - 1][1] = 0
    /\ sWordleFrame[2] = PInf
    /\ grid[0][2] = 2
    /\ sWordleFrame[3] = Fin(300)
    /\ grid[0][3] = 1

\* C17: the magnitude the bin sampler hands to the smoothing step is never
\* negative infinity.
C17_SamplerNeverNegativeInfinity ==
    (pc = "sample") =>
        \A c \in Columns :
            Amplitude(spectrum, aui32FreqBins, c).k # "ninf"

\* C18: in a fully initialised run the steps of a cycle come in the order
\* read, transform, sample and smooth, render, and the next read comes after
\* the render: the four counters advance in that order, the transform is
\* that of the window just read, the smoothing step brings every column to
\* at least the magnitude of that window (and otherwise to 0.9 times its
\* old value), the render prints the levels of the frame so updated, and a
\* finished run has one render per successful read.
C18_CycleOrder ==
    /\ []((acquired = << "stream", "output", "plan" >>) =>
            /\ (pc = "loop" /\ failedCycle = 0) =>
                    /\ reads = ui32ReadIndex
                    /\ transforms = ui32ReadIndex
                    /\ smooths = ui32ReadIndex
                    /\ renders = ui32ReadIndex
            /\ (pc = "execute") =>
                    /\ reads = ui32ReadIndex + 1
                    /\ transforms = ui32ReadIndex
                    /\ smooths = ui32ReadIndex
                    /\ renders = ui32ReadIndex
            /\ (pc = "sample") =>
                    /\ reads = ui32ReadIndex + 1
                    /\ transforms = ui32ReadIndex + 1
                    /\ smooths = ui32ReadIndex
                    /\ renders = ui32ReadIndex
                    /\ spectrum = DFT(afPulseBuffer)
            /\ (pc = "render") =>
                    /\ reads = ui32ReadIndex + 1
                    /\ transforms = ui32ReadIndex + 1
                    /\ smooths = ui32ReadIndex + 1
                    /\ renders = ui32ReadIndex
            /\ (pc = "done") =>
                    renders = reads - (IF failedCycle > 0 THEN 1 ELSE 0))
    /\ [][(acquired = << "stream", "output", "plan" >>) =>
            /\ (reads' = reads + 1 /\ failedCycle' = 0) => pc' = "execute"
            /\ (transforms' = transforms + 1) =>
                    (pc = "execute" /\ pc' = "sample")
            /\ (smooths' = smooths + 1) =>
                    /\ pc = "sample"
                    /\ pc' = "render"
                    /\ \A c \in Columns :
                        LET m == Amplitude(DFT(afPulseBuffer),
                                           aui32FreqBins, c)
                            old == sWordleFrame[c]
                            new == sWordleFrame'[c]
                        IN  /\ new.k = "fin"
                            /\ 10 * new.v >= 9 * old.v - 5
                            /\ (m.k = "fin") => new.v >= m.v
                            /\ \/ new = m
                               \/ 10 * new.v <= 9 * old.v + 5
            /\ (renders' = renders + 1) =>
                    /\ pc = "render"
                    /\ pc' = "loop"
                    /\ sWordleFrame' = sWordleFrame
                    /\ \A r \in Rows, c \in Columns :
                        LET a == sWordleFrame[c].v * (r + 1)
                        IN  grid'[r][c] =
                                IF a < 50 * WORDLE_ROWS THEN 0
                                ELSE IF a < 100 * WORDLE_ROWS THEN 1
                                ELSE 2]_vars

C18_Witness ==
    /\ pc = "loop"
    /\ acquired = << "stream", "output", "plan" >>
    /\ afPulseBuffer = Impulse(100)
    /\ ui32ReadIndex = 2
    /\ reads = 2
    /\ renders = 2
    /\ \A c \in Columns :
        /\ sWordleFrame[c] = Fin(200)
        /\ grid[0][c] = 0
        /\ grid[WORDLE_ROWS - 1][c] = 2

\* C19: starting from the zero frame, no column's frame value is ever
\* negative (or NaN), whatever magnitudes are sampled.
C19_FrameNeverNegative ==
    \A c \in Columns :
        \/ sWordleFrame[c].k = "pinf"
        \/ sWordleFrame[c].k = "fin" /\ sWordleFrame[c].v >= 0

C19_Witness ==
    /\ pc = "render"
    /\ smooths = TailStart + 2
    /\ afPulseBuffer = Impulse(1)
    /\ Amplitude(spectrum, aui32FreqBins, 0) = Fin(-200)
    /\ sWordleFrame[0] = Fin(0)

\* C20: the frame changes only in the smoothing step of a cycle whose read
\* succeeded; printing the grid does not change it, and neither does
\* anything from a failed read on.
C20_FrameChangedOnlyBySmoothing ==
    [][/\ (sWordleFrame' # sWordleFrame) =>
            /\ pc = "sample"
            /\ smooths' = smooths + 1
            /\ reads = smooths + 1
            /\ failedCycle = 0
       /\ (renders' = renders + 1) => (sWordleFrame' = sWordleFrame)
       /\ (failedCycle' > 0) => (sWordleFrame' = sWordleFrame)]_vars

C20_Witness ==
    /\ pc = "done"
    /\ failedCycle = 3
    /\ renders = 2
    /\ \A c \in Columns : sWordleFrame[c] = Fin(180)
    /\ grid[WORDLE_ROWS - 1][0] = 2

====
